---- MODULE Spec2Model ----
(***************************************************************************)
(* Model of sunbeam/plugins/validation/plugin.py: the schedule validator   *)
(* (validated_schedule), the configure argument handling                   *)
(* (parse_config_args, validated_config_args, configure_validation) and    *)
(* the action dispatch (_run_action and its two commands).                 *)
(*                                                                         *)
(* Python strings are sequences of one-character strings, so that split,   *)
(* strip and the cron field grammar are computed character by character.   *)
(***************************************************************************)
EXTENDS Integers, Sequences, FiniteSets, TLC

VARIABLES
    sched_in,    \* validated_schedule: the argument `schedule`
    sched_out,   \* validated_schedule: the return value or the exception raised
    pc,          \* per CLI process: position inside the command handler
    cmd,         \* per CLI process: the command in flight and its arguments
    unit,        \* per CLI process: the local `unit`
    message,     \* per CLI process: the local `message` (Unbound until assigned)
    calls,       \* per CLI process: collaborator calls made by this invocation, in order
    result,      \* per CLI process: action_result returned by jhelper.run_action
    outcome,     \* per CLI process: how the handler ended (return or exception)
    printed,     \* per CLI process: what console.print has written
    leader,      \* juju: the current leader unit of tempest (or None)
    app_config   \* juju: the schedule option stored for tempest

vars == <<sched_in, sched_out, pc, cmd, unit, message, calls, result, outcome,
          printed, leader, app_config>>

\* Python's None where a unit name is expected
None == "None"

\* Optional values: <<>> is None (or an unbound local), <<v>> is the value v
Nothing == <<>>
Some(v) == <<v>>

----------------------------------------------------------------------------
(* Python str helpers *)

Whitespace == {" ", "\t", "\n"}

Min(S) == CHOOSE x \in S : \A y \in S : x <= y

\* s[i:] with a 1-based i
Drop(s, i) == SubSeq(s, i, Len(s))

RECURSIVE LStrip(_)
LStrip(s) ==
    IF s # <<>> /\ Head(s) \in Whitespace THEN LStrip(Tail(s)) ELSE s

RECURSIVE RStrip(_)
RStrip(s) ==
    IF s # <<>> /\ s[Len(s)] \in Whitespace
    THEN RStrip(SubSeq(s, 1, Len(s) - 1))
    ELSE s

\* str.rstrip() in the place of str.strip()
StripTrailing(s) == RStrip(s)

\* str.strip(): leading and trailing whitespace removed
Strip(s) == LStrip(RStrip(s))

\* index of the first occurrence of character c in s, 0 when absent
RECURSIVE Find(_, _, _)
Find(s, c, i) ==
    IF i > Len(s) THEN 0
    ELSE IF s[i] = c THEN i
    ELSE Find(s, c, i + 1)

\* str.split(c): the pieces between every occurrence of c
RECURSIVE SplitOn(_, _)
SplitOn(s, c) ==
    LET i == Find(s, c, 1)
    IN  IF i = 0 THEN <<s>>
        ELSE <<SubSeq(s, 1, i - 1)>> \o SplitOn(Drop(s, i + 1), c)

\* str.split(c, 1): at most one split, at the first c
SplitOnce(s, c) ==
    LET i == Find(s, c, 1)
    IN  IF i = 0 THEN <<s>>
        ELSE <<SubSeq(s, 1, i - 1), Drop(s, i + 1)>>

\* length of the leading run of non-whitespace characters
RECURSIVE WordLen(_)
WordLen(s) ==
    IF s = <<>> \/ Head(s) \in Whitespace THEN 0 ELSE 1 + WordLen(Tail(s))

\* str.split(): the maximal runs of non-whitespace characters
RECURSIVE Split(_)
Split(s) ==
    LET t == LStrip(s)
    IN  IF t = <<>> THEN <<>>
        ELSE <<SubSeq(t, 1, WordLen(t))>> \o Split(Drop(t, WordLen(t) + 1))

RECURSIVE Join(_, _)
Join(parts, sep) ==
    IF parts = <<>> THEN <<>>
    ELSE IF Len(parts) = 1 THEN parts[1]
    ELSE parts[1] \o sep \o Join(Tail(parts), sep)

Digit ==
    [c \in {"0", "1", "2", "3", "4", "5", "6", "7", "8", "9"} |->
        CASE c = "0" -> 0 [] c = "1" -> 1 [] c = "2" -> 2 [] c = "3" -> 3
          [] c = "4" -> 4 [] c = "5" -> 5 [] c = "6" -> 6 [] c = "7" -> 7
          [] c = "8" -> 8 [] c = "9" -> 9]

IsNumber(s) == s # <<>> /\ \A i \in 1..Len(s) : s[i] \in DOMAIN Digit

RECURSIVE ToInt(_)
ToInt(s) ==
    IF s = <<>> THEN 0 ELSE 10 * ToInt(SubSeq(s, 1, Len(s) - 1)) + Digit[s[Len(s)]]

----------------------------------------------------------------------------
(* What a call ends with: a return value or a raised exception *)

\* a message is a sequence of strings: its fixed text, and the characters of
\* whatever an f-string puts into it
Return(v) == [kind |-> "return", value |-> v]
Raise(exc, msg) == [kind |-> "raise", exc |-> exc, msg |-> msg]

----------------------------------------------------------------------------
(* croniter, as far as validated_schedule uses it: the constructor          *)
(* croniter(schedule, base, max_years_between_matches=1) and get_next().    *)
(* Grammar modelled per field: a comma list of "*", "*/n", a number, and    *)
(* (day of week) a three-letter day name.                                   *)

MINIMAL_PERIOD == 15 * 60

MaxYearsBetweenMatches == 1

BaseYear == 2004
BaseMonth == 3
BaseDay == 5

SecondsPerDay == 24 * 60 * 60

\* columns: minute, hour, day of month, month, day of week, (second)
FieldLo == <<0, 0, 1, 1, 0, 0>>
FieldHi == <<59, 23, 31, 12, 6, 59>>
FieldRange(i) == FieldLo[i] .. FieldHi[i]

DowNames ==
    << <<"s","u","n">>, <<"m","o","n">>, <<"t","u","e">>, <<"w","e","d">>,
       <<"t","h","u">>, <<"f","r","i">>, <<"s","a","t">> >>

BadField == {-1}

\* one item of a column's comma list, expanded to the set of values it names
ExpandItem(item, i) ==
    IF item = <<"*">> THEN FieldRange(i)
    ELSE IF Len(item) > 2 /\ SubSeq(item, 1, 2) = <<"*", "/">>
    THEN LET n == Drop(item, 3)
         IN  IF IsNumber(n) /\ ToInt(n) >= 1 /\ ToInt(n) <= FieldHi[i]
             THEN {v \in FieldRange(i) : (v - FieldLo[i]) % ToInt(n) = 0}
             ELSE BadField
    ELSE IF IsNumber(item)
    THEN LET v == IF i = 5 /\ ToInt(item) = 7 THEN 0 ELSE ToInt(item)
         IN  IF v \in FieldRange(i) THEN {v} ELSE BadField
    ELSE IF i = 5 /\ \E k \in 1..7 : DowNames[k] = item
    THEN {(CHOOSE k \in 1..7 : DowNames[k] = item) - 1}
    ELSE BadField

ExpandField(tok, i) ==
    LET items == SplitOn(tok, ",")
        sets == {ExpandItem(items[k], i) : k \in 1..Len(items)}
    IN  IF BadField \in sets THEN BadField ELSE UNION sets

\* the columns of the tokens, or the ValueError for a column out of its grammar
ExpandAll(expr, toks) ==
    IF \E i \in 1..Len(toks) : ExpandField(toks[i], i) = BadField
    THEN Raise("CroniterBadCronError", <<"[">> \o expr \o <<"] is not acceptable">>)
    ELSE Return([i \in 1..Len(toks) |-> ExpandField(toks[i], i)])

CroniterTokens(expr, toks) ==
    IF Len(toks) \notin {5, 6}
    THEN Raise("CroniterBadCronError",
               <<"Exactly 5 or 6 columns has to be specified for iterator expression.">>)
    ELSE ExpandAll(expr, toks)

\* croniter(...): the expanded columns, or the ValueError the constructor raises
Croniter(expr) == CroniterTokens(expr, Split(expr))

IsLeap(y) == (y % 4 = 0 /\ y % 100 # 0) \/ y % 400 = 0

DAYS == <<31, 28, 31, 30, 31, 30, 31, 31, 30, 31, 30, 31>>

DaysIn(y, m) == IF m = 2 /\ IsLeap(y) THEN DAYS[m] + 1 ELSE DAYS[m]

\* leap years before year y
LeapsBefore(y) == (y - 1) \div 4 - (y - 1) \div 100 + (y - 1) \div 400

\* days from January 1st of BaseYear to January 1st of year y
YearStart(y) == 365 * (y - BaseYear) + LeapsBefore(y) - LeapsBefore(BaseYear)

\* days of a common year before the first of each month
DaysBefore == <<0, 31, 59, 90, 120, 151, 181, 212, 243, 273, 304, 334>>

\* days from January 1st of BaseYear to the first of month m of year y
MonthStart(y, m) ==
    YearStart(y) + DaysBefore[m] + (IF m > 2 /\ IsLeap(y) THEN 1 ELSE 0)

DayNumber(y, m, d) == MonthStart(y, m) + d - 1

YearOf(n) ==
    CHOOSE y \in BaseYear .. BaseYear + n \div 365 :
        YearStart(y) <= n /\ n < YearStart(y + 1)

MonthOf(y, n) ==
    CHOOSE m \in 1..12 : MonthStart(y, m) <= n /\ n < MonthStart(y, m) + DaysIn(y, m)

DateIn(y, m, n) == [y |-> y, m |-> m, d |-> n - MonthStart(y, m) + 1]

DateInYear(y, n) == DateIn(y, MonthOf(y, n), n)

\* the date of day number n >= 0
DateOf(n) == DateInYear(YearOf(n), n)

\* January 1st of 2004 was a Thursday; 0 is Sunday
DayOfWeek(n) == (4 + n) % 7

\* datetime(2004, 3, 5), in seconds since January 1st of BaseYear
Base == DayNumber(BaseYear, BaseMonth, BaseDay) * SecondsPerDay

\* no date, and no time, found
NoDate == [y |-> 0, m |-> 0, d |-> 0]
NoTime == 0 - 1

IsStar(cols, i) == cols[i] = FieldRange(i)

Seconds(cols) == IF Len(cols) = 6 THEN cols[6] ELSE {0}

DayMatches(cols, y, m, d) ==
    /\ m \in cols[4]
    /\ d \in cols[3]
    /\ DayOfWeek(DayNumber(y, m, d)) \in cols[5]

\* the matching days of month m of year y, from day d on
DaysLeft(cols, y, m, d) ==
    IF m \notin cols[4] THEN {}
    ELSE {dd \in d .. DaysIn(y, m) : DayMatches(cols, y, m, dd)}

RECURSIVE NextDate(_, _, _, _, _)

\* the first of `days` in month m of year y, or the search in the next month
FirstOf(cols, y, m, endYear, days) ==
    IF days # {} THEN [y |-> y, m |-> m, d |-> Min(days)]
    ELSE IF m = 12 THEN NextDate(cols, y + 1, 1, 1, endYear)
    ELSE NextDate(cols, y, m + 1, 1, endYear)

\* the first matching date from y-m-d on, no later than endYear
NextDate(cols, y, m, d, endYear) ==
    IF y > endYear THEN NoDate
    ELSE FirstOf(cols, y, m, endYear, DaysLeft(cols, y, m, d))

\* the first matching time of day at or after tod, NoTime when the day has none left
NextTimeOfDay(cols, tod) ==
    LET h0 == tod \div 3600
        m0 == (tod % 3600) \div 60
        s0 == tod % 60
        S == Seconds(cols)
        sameMinute == {s \in S : s >= s0}
        sameHour == {m \in cols[1] : m > m0}
        later == {h \in cols[2] : h > h0}
    IN  IF h0 \in cols[2] /\ m0 \in cols[1] /\ sameMinute # {}
        THEN h0 * 3600 + m0 * 60 + Min(sameMinute)
        ELSE IF h0 \in cols[2] /\ sameHour # {}
        THEN h0 * 3600 + Min(sameHour) * 60 + Min(S)
        ELSE IF later # {}
        THEN Min(later) * 3600 + Min(cols[1]) * 60 + Min(S)
        ELSE NoTime

FirstTimeOfDay(cols) == Min(cols[2]) * 3600 + Min(cols[1]) * 60 + Min(Seconds(cols))

\* the instant found: today's, or the first time of day of the next date
Found(cols, start, today, nxt) ==
    IF today # NoTime THEN (start \div SecondsPerDay) * SecondsPerDay + today
    ELSE IF nxt = NoDate THEN NoTime
    ELSE DayNumber(nxt.y, nxt.m, nxt.d) * SecondsPerDay + FirstTimeOfDay(cols)

TimeToday(cols, start, d0) ==
    IF DayMatches(cols, d0.y, d0.m, d0.d)
    THEN NextTimeOfDay(cols, start % SecondsPerDay)
    ELSE NoTime

CalcOn(cols, start, d0, years) ==
    Found(cols, start, TimeToday(cols, start, d0),
          NextDate(cols, d0.y, d0.m, d0.d + 1, d0.y + years))

CalcFrom(cols, start, years) ==
    CalcOn(cols, start, DateOf(start \div SecondsPerDay), years)

\* the first match strictly after cur, searched through the end of the year
\* `years` after the year the search starts in; NoTime when there is none
\* (croniter raises CroniterBadDateError)
CalcWithin(cols, cur, years) ==
    CalcFrom(cols, cur + (IF Len(cols) = 6 THEN 1 ELSE 60), years)

Calc(cols, cur) == CalcWithin(cols, cur, MaxYearsBetweenMatches)

Earlier(a, b) ==
    IF a = NoTime \/ b = NoTime THEN NoTime
    ELSE IF a <= b THEN a ELSE b

\* cron.get_next(): with both day columns restricted a day matches either
GetNext(cols, cur) ==
    IF ~IsStar(cols, 3) /\ ~IsStar(cols, 5)
    THEN Earlier(Calc([cols EXCEPT ![5] = FieldRange(5)], cur),
                 Calc([cols EXCEPT ![3] = FieldRange(3)], cur))
    ELSE Calc(cols, cur)

----------------------------------------------------------------------------
(* validated_schedule *)

MsgSeconds ==
    <<"This cron does not support seconds in schedule (6 fields). Exactly 5 columns must be specified for iterator expression.">>
MsgColumns == <<"Exactly 5 columns must be specified for iterator expression.">>
MsgTooFast == <<"Cannot schedule periodic check to run faster than every 15 minutes.">>
MsgBadDate == <<"failed to find next date">>

\* `"Exactly 5 or 6 columns" in msg`
MentionsColumns(msg) ==
    msg = <<"Exactly 5 or 6 columns has to be specified for iterator expression.">>

\* `if t2 - t1 <= MINIMAL_PERIOD`, after two get_next() that found an instant
PeriodTest(schedule, t1, t2) ==
    IF t1 = NoTime \/ t2 = NoTime
    THEN Raise("CroniterBadDateError", MsgBadDate)
    ELSE IF t2 - t1 <= MINIMAL_PERIOD
    THEN Raise("ClickException", MsgTooFast)
    ELSE Return(schedule)

\* t2 = cron.get_next()
SecondNext(schedule, cols, t1) ==
    PeriodTest(schedule, t1, IF t1 = NoTime THEN NoTime ELSE GetNext(cols, t1))

\* t1 = cron.get_next(), and what follows it
CheckPeriod(schedule, cols) == SecondNext(schedule, cols, GetNext(cols, Base))

\* the try block around croniter(...), and what follows it
Parsed(schedule, cron) ==
    IF cron.kind = "raise"
    THEN Raise("ClickException",
               IF MentionsColumns(cron.msg) THEN MsgColumns ELSE cron.msg)
    ELSE CheckPeriod(schedule, cron.value)

\* validated_schedule without the test for six columns
validated_schedule_no_seconds_test(schedule) ==
    IF schedule = <<>> THEN Return(<<>>)
    ELSE Parsed(schedule, Croniter(schedule))

\* validated_schedule without the test for the empty schedule
validated_schedule_no_empty_test(schedule) ==
    IF Len(Split(schedule)) = 6 THEN Raise("ClickException", MsgSeconds)
    ELSE Parsed(schedule, Croniter(schedule))

validated_schedule(schedule) ==
    IF schedule = <<>> THEN Return(<<>>)
    ELSE IF Len(Split(schedule)) = 6 THEN Raise("ClickException", MsgSeconds)
    ELSE Parsed(schedule, Croniter(schedule))

----------------------------------------------------------------------------
(* Schedules handed to validated_schedule *)

\* whitespace runs put before and after a schedule are at most this long
MaxPad == 1

MinuteTokens ==
    { <<"*">>, <<"*","/","5">>, <<"*","/","1","5">>, <<"*","/","2","0">>,
      <<"*","/","3","0">>, <<"5">>, <<"0",",","5">>, <<"5",",","1","0">>,
      <<"6","0">> }
HourTokens == { <<"*">>, <<"4">> }
DomTokens == { <<"*">>, <<"2","9">>, <<"3","1">> }
MonthTokens == { <<"*">>, <<"2">> }
DowTokens == { <<"*">>, <<"m","o","n">>, <<"x","y","z">> }
ExtraTokens == { <<"*">>, <<"6">>, <<"x","y","z">> }

FiveColumns ==
    { <<mi, h, dom, mo, dow>> :
        mi \in MinuteTokens, h \in HourTokens, dom \in DomTokens,
        mo \in MonthTokens, dow \in DowTokens }

\* zero to seven whitespace-separated tokens
TokenLists ==
    { SubSeq(f, 1, n) : f \in FiveColumns, n \in 0..5 }
      \cup { f \o <<x>> : f \in FiveColumns, x \in ExtraTokens }
      \cup { f \o <<x, <<"*">> >> : f \in FiveColumns, x \in ExtraTokens }

Pad(n) == [i \in 1..n |-> " "]

SchedulePool ==
    { Pad(a) \o Join(toks, <<" ">>) \o Pad(b) :
        toks \in TokenLists, a \in 0..MaxPad, b \in 0..MaxPad }

Pending == [kind |-> "pending"]

----------------------------------------------------------------------------
(* Specification SpecSched: validated_schedule applied to one schedule *)

Procs == {"cli1", "cli2"}

Idle == [name |-> "none"]

InitSched ==
    /\ sched_in \in SchedulePool
    /\ sched_out = Pending
    /\ pc = [p \in Procs |-> "idle"]
    /\ cmd = [p \in Procs |-> Idle]
    /\ unit = [p \in Procs |-> None]
    /\ message = [p \in Procs |-> Nothing]
    /\ calls = [p \in Procs |-> <<>>]
    /\ result = [p \in Procs |-> Pending]
    /\ outcome = [p \in Procs |-> Pending]
    /\ printed = [p \in Procs |-> <<>>]
    /\ leader = None
    /\ app_config = <<>>

ValidateSchedule ==
    /\ sched_out = Pending
    /\ sched_out' = validated_schedule(sched_in)
    /\ UNCHANGED <<sched_in, pc, cmd, unit, message, calls, result, outcome,
                   printed, leader, app_config>>

NextSched == ValidateSchedule

SpecSched == InitSched /\ [][NextSched]_vars

----------------------------------------------------------------------------
(* parse_config_args, validated_config_args *)

ScheduleKey == <<"s","c","h","e","d","u","l","e">>

\* a dict is the sequence of its <<key, value>> items, in insertion order
HasKey(config, key) == \E i \in 1..Len(config) : config[i][1] = key

RECURSIVE ParseLoop(_, _)
ParseLoop(args, config) ==
    IF args = <<>> THEN Return(config)
    ELSE LET split_arg == SplitOnce(Head(args), "=")
         IN  IF Len(split_arg) = 1
             THEN Raise("ClickException", <<"syntax: key=value">>)
             ELSE IF HasKey(config, split_arg[1])
             THEN Raise("ClickException",
                        split_arg[1] \o <<" parameter seen multiple times.  Only provide it once.">>)
             ELSE ParseLoop(Tail(args), Append(config, <<split_arg[1], split_arg[2]>>))

parse_config_args(args) == ParseLoop(args, <<>>)

\* Config(): schedule is None
Config == [schedule |-> Nothing]

\* the loop of validated_config_args with the schedule taken as given
RECURSIVE UnvalidatedLoop(_, _)
UnvalidatedLoop(items, config) ==
    IF items = <<>> THEN Return(config)
    ELSE IF items[1][1] = ScheduleKey
    THEN UnvalidatedLoop(Tail(items), [config EXCEPT !.schedule = Some(items[1][2])])
    ELSE Raise("ClickException", items[1][1] \o <<" is not a supported config option">>)

validated_config_args_unvalidated(args) == UnvalidatedLoop(args, Config)

RECURSIVE ValidateLoop(_, _)

\* config.schedule = validated_schedule(value), raising what it raises
Validated(items, config, v) ==
    IF v.kind = "raise" THEN v
    ELSE ValidateLoop(Tail(items), [config EXCEPT !.schedule = Some(v.value)])

ValidateLoop(items, config) ==
    IF items = <<>> THEN Return(config)
    ELSE IF items[1][1] = ScheduleKey
    THEN Validated(items, config, validated_schedule(items[1][2]))
    ELSE Raise("ClickException", items[1][1] \o <<" is not a supported config option">>)

validated_config_args(args) == ValidateLoop(args, Config)

----------------------------------------------------------------------------
(* configure_validation *)

App == "tempest"
OPENSTACK_MODEL == "openstack"

MsgObservability ==
    <<"'observability' plugin is required for configuring validation plugin.">>
MsgHelp == <<"Config options available: ...">>
MsgNoLeader == <<"Unable to get ", App, " leader">>
MsgUnbound == <<"local variable 'message' referenced before assignment">>

_configure_preflight_check(enabled_plugins) == "observability" \in enabled_plugins

\* validated_config_args(parse_config_args(options))
Parse(parsed) == IF parsed.kind = "raise" THEN parsed ELSE validated_config_args(parsed.value)

ConfigChanges(options) ==
    IF options = <<>> THEN Return(Config) ELSE Parse(parse_config_args(options))

\* how the handler goes on from its arguments: ("raise", exception),
\* ("help", None), ("dispatch", schedule) or ("return", None)
Checked(options, enabled_plugins, config_changes) ==
    IF ~_configure_preflight_check(enabled_plugins)
    THEN <<"raise", Raise("ClickException", MsgObservability)>>
    ELSE IF options = <<>> THEN <<"help", Return(Nothing)>>
    ELSE IF config_changes.kind = "raise" THEN <<"raise", config_changes>>
    ELSE IF config_changes.value.schedule # Nothing
    THEN <<"dispatch", Return(config_changes.value.schedule)>>
    ELSE <<"return", Return(Nothing)>>

ConfigureStep(p, options, enabled_plugins, step) ==
    /\ cmd' = [cmd EXCEPT ![p] =
                  [name |-> "configure", options |-> options,
                   enabled_plugins |-> enabled_plugins,
                   schedule |-> IF step[1] = "dispatch" THEN step[2].value ELSE Nothing]]
    /\ pc' = [pc EXCEPT ![p] =
                 IF step[1] = "dispatch" THEN "configure_get_leader" ELSE "done"]
    /\ outcome' = [outcome EXCEPT ![p] = IF step[1] = "dispatch" THEN @ ELSE step[2]]
    /\ printed' = [printed EXCEPT ![p] = IF step[1] = "help" THEN Append(@, MsgHelp) ELSE @]

\* the handler up to its first call to juju: the preflight check, the help
\* text, parse_config_args and validated_config_args
ConfigureValidation(p, options, enabled_plugins) ==
    /\ pc[p] = "idle"
    /\ ConfigureStep(p, options, enabled_plugins,
                     Checked(options, enabled_plugins, ConfigChanges(options)))
    /\ UNCHANGED <<sched_in, sched_out, unit, message, calls, result, leader, app_config>>

\* unit = run_sync(jhelper.get_leader_unit(app, model)) and the test of unit
ConfigureGetLeader(p) ==
    /\ pc[p] = "configure_get_leader"
    /\ unit' = [unit EXCEPT ![p] = leader]
    /\ calls' = [calls EXCEPT ![p] =
                    Append(@, [op |-> "get_leader_unit", app |-> App,
                               model |-> OPENSTACK_MODEL, ret |-> leader])]
    /\ IF leader = None
       THEN /\ message' = [message EXCEPT ![p] = Some(MsgNoLeader)]
            /\ outcome' = [outcome EXCEPT ![p] = Raise("ClickException", MsgNoLeader)]
            /\ pc' = [pc EXCEPT ![p] = "done"]
       ELSE /\ pc' = [pc EXCEPT ![p] = "configure_set_config"]
            /\ UNCHANGED <<message, outcome>>
    /\ UNCHANGED <<sched_in, sched_out, cmd, result, printed, leader, app_config>>

\* run_sync(jhelper.set_application_config(...)) and console.print(message)
ConfigureSetConfig(p) ==
    /\ pc[p] = "configure_set_config"
    /\ calls' = [calls EXCEPT ![p] =
                    Append(@, [op |-> "set_application_config", app |-> App,
                               model |-> OPENSTACK_MODEL,
                               config |-> [schedule |-> cmd[p].schedule[1]]])]
    /\ app_config' = cmd[p].schedule[1]
    /\ IF message[p] = Nothing
       THEN /\ outcome' = [outcome EXCEPT ![p] = Raise("UnboundLocalError", MsgUnbound)]
            /\ UNCHANGED printed
       ELSE /\ printed' = [printed EXCEPT ![p] = Append(@, message[p][1])]
            /\ outcome' = [outcome EXCEPT ![p] = Return(Nothing)]
    /\ pc' = [pc EXCEPT ![p] = "done"]
    /\ UNCHANGED <<sched_in, sched_out, cmd, unit, message, result, leader>>

----------------------------------------------------------------------------
(* _run_action and the two commands that call it *)

EmptyParams == [k \in {} |-> ""]

\* `action_params or {}`
OrEmpty(action_params) ==
    IF action_params = Nothing THEN EmptyParams ELSE action_params[1]

\* action_result.get("return-code", 0)
ReturnCode(action_result) ==
    IF action_result.return_code = Nothing THEN 0 ELSE action_result.return_code[1]

\* the return code test with every code but 0 taken as a failure
ActionFailed_nonzero(action_result) == ReturnCode(action_result) > 0

\* action_result.get("return-code", 0) > 1
ActionFailed(action_result) == ReturnCode(action_result) > 1

MsgActionFailed(action_name) == <<"Unable to run action: ", action_name>>

\* the unit of whichever dispatch has resolved one, as a shared cache would give
TargetUnit_shared(p) ==
    IF \E q \in Procs \ {p} : unit[q] # None
    THEN unit[CHOOSE q \in Procs \ {p} : unit[q] # None]
    ELSE unit[p]

\* the unit passed to jhelper.run_action: the local `unit`
TargetUnit(p) == unit[p]

\* entry of _run_action(action_name, action_params, progress_message, print_stdout)
RunAction(p, action_name, action_params, print_stdout) ==
    /\ pc[p] = "idle"
    /\ pc' = [pc EXCEPT ![p] = "run_get_leader"]
    /\ cmd' = [cmd EXCEPT ![p] =
                  [name |-> "_run_action", action_name |-> action_name,
                   action_params |-> action_params, print_stdout |-> print_stdout]]
    /\ UNCHANGED <<sched_in, sched_out, unit, message, calls, result, outcome,
                   printed, leader, app_config>>

run_validate_action(p, smoke, regex, exclude_regex, serial, test_list) ==
    RunAction(p, "validate",
              Some([regex |-> IF smoke THEN "smoke" ELSE regex,
                    exclude_regex |-> exclude_regex,
                    serial |-> serial,
                    test_list |-> test_list]),
              TRUE)

run_get_lists_action(p) == RunAction(p, "get-lists", Some(EmptyParams), TRUE)

\* get_leader_unit answered once more when there is no leader
RunActionGetLeader_retry(p) ==
    /\ pc[p] = "run_get_leader"
    /\ unit' = [unit EXCEPT ![p] = leader]
    /\ calls' = [calls EXCEPT ![p] =
                    Append(@, [op |-> "get_leader_unit", app |-> App,
                               model |-> OPENSTACK_MODEL, ret |-> leader])]
    /\ IF leader = None /\ calls[p] # <<>>
       THEN /\ outcome' = [outcome EXCEPT ![p] = Raise("ClickException", MsgNoLeader)]
            /\ pc' = [pc EXCEPT ![p] = "done"]
       ELSE IF leader = None
       THEN UNCHANGED <<pc, outcome>>
       ELSE /\ pc' = [pc EXCEPT ![p] = "run_invoke"]
            /\ UNCHANGED outcome
    /\ UNCHANGED <<sched_in, sched_out, cmd, message, result, printed, leader, app_config>>

\* get_leader_unit without the test of unit
RunActionGetLeader_unchecked(p) ==
    /\ pc[p] = "run_get_leader"
    /\ unit' = [unit EXCEPT ![p] = leader]
    /\ calls' = [calls EXCEPT ![p] =
                    Append(@, [op |-> "get_leader_unit", app |-> App,
                               model |-> OPENSTACK_MODEL, ret |-> leader])]
    /\ pc' = [pc EXCEPT ![p] = "run_invoke"]
    /\ UNCHANGED <<sched_in, sched_out, cmd, message, result, outcome, printed,
                   leader, app_config>>

\* unit = run_sync(jhelper.get_leader_unit(app, model)) and the test of unit
RunActionGetLeader(p) ==
    /\ pc[p] = "run_get_leader"
    /\ unit' = [unit EXCEPT ![p] = leader]
    /\ calls' = [calls EXCEPT ![p] =
                    Append(@, [op |-> "get_leader_unit", app |-> App,
                               model |-> OPENSTACK_MODEL, ret |-> leader])]
    /\ IF leader = None
       THEN /\ outcome' = [outcome EXCEPT ![p] = Raise("ClickException", MsgNoLeader)]
            /\ pc' = [pc EXCEPT ![p] = "done"]
       ELSE /\ pc' = [pc EXCEPT ![p] = "run_invoke"]
            /\ UNCHANGED outcome
    /\ UNCHANGED <<sched_in, sched_out, cmd, message, result, printed, leader, app_config>>

\* action_result = run_sync(jhelper.run_action(...)), the return code test
\* and the print of stdout
RunActionInvoke(p, action_result) ==
    /\ pc[p] = "run_invoke"
    /\ calls' = [calls EXCEPT ![p] =
                    Append(@, [op |-> "run_action", unit |-> TargetUnit(p),
                               model |-> OPENSTACK_MODEL,
                               action_name |-> cmd[p].action_name,
                               params |-> OrEmpty(cmd[p].action_params)])]
    /\ result' = [result EXCEPT ![p] = action_result]
    /\ IF ActionFailed(action_result)
       THEN /\ outcome' = [outcome EXCEPT ![p] =
                              Raise("ClickException", MsgActionFailed(cmd[p].action_name))]
            /\ UNCHANGED printed
       ELSE /\ outcome' = [outcome EXCEPT ![p] = Return(Nothing)]
            /\ printed' = [printed EXCEPT ![p] =
                              IF cmd[p].print_stdout
                              THEN Append(@, Strip(action_result.stdout))
                              ELSE @]
    /\ pc' = [pc EXCEPT ![p] = "done"]
    /\ UNCHANGED <<sched_in, sched_out, cmd, unit, message, leader, app_config>>

----------------------------------------------------------------------------
(* The command line process and juju around the handlers *)

\* the command has ended; the process exits and its locals are gone
Exit(p) ==
    /\ pc[p] = "done"
    /\ pc' = [pc EXCEPT ![p] = "idle"]
    /\ cmd' = [cmd EXCEPT ![p] = Idle]
    /\ unit' = [unit EXCEPT ![p] = None]
    /\ message' = [message EXCEPT ![p] = Nothing]
    /\ calls' = [calls EXCEPT ![p] = <<>>]
    /\ result' = [result EXCEPT ![p] = Pending]
    /\ outcome' = [outcome EXCEPT ![p] = Pending]
    /\ printed' = [printed EXCEPT ![p] = <<>>]
    /\ UNCHANGED <<sched_in, sched_out, leader, app_config>>

Units == {"tempest/0", "tempest/1"}

\* juju elects another leader, or is left with none
LeaderChange(u) ==
    /\ u # leader
    /\ leader' = u
    /\ UNCHANGED <<sched_in, sched_out, pc, cmd, unit, message, calls, result,
                   outcome, printed, app_config>>

----------------------------------------------------------------------------
(* Inputs *)

\* at most this many key=value arguments are given to configure
MaxArgs == 2
\* return codes of an action run from 0 to this
MaxReturnCode == 3
\* an action's stdout is at most this long
MaxStdout == 3

RECURSIVE SeqsUpTo(_, _)
SeqsUpTo(S, n) ==
    IF n = 0 THEN {<<>>}
    ELSE LET shorter == SeqsUpTo(S, n - 1)
         IN  shorter \cup {Append(q, x) : q \in shorter, x \in S}

Sched30 == <<"*","/","3","0"," ","*"," ","*"," ","*"," ","*">>
Sched5 == <<"*","/","5"," ","*"," ","*"," ","*"," ","*">>
SchedSix == Sched30 \o <<" ","6">>
SchedThree == <<"*","/","3","0"," ","*"," ","*">>
SchedLeapDay == <<"5"," ","4"," ","2","9"," ","2"," ","*">>

ValuePool == { <<>>, <<" ">>, Sched30, Sched5, SchedSix, SchedThree, SchedLeapDay }

ArgPool ==
    { ScheduleKey \o <<"=">> \o v : v \in ValuePool }
      \cup { ScheduleKey, <<"f","o","o","=","1">>, <<"=","x">> }

OptionsPool == SeqsUpTo(ArgPool, MaxArgs)
EnabledPool == { {}, {"observability"} }

StdoutChars == {" ", "a", "\n"}
ResultPool ==
    [ return_code : {Nothing} \cup {Some(n) : n \in 0..MaxReturnCode},
      stdout : SeqsUpTo(StdoutChars, MaxStdout) ]

ActionNames == {"validate", "get-lists"}
RegexPool == {"", "api"}

----------------------------------------------------------------------------
(* Specification Spec: one command line process, command after command *)

Cli == "cli1"

Init ==
    /\ sched_in = <<>>
    /\ sched_out = Pending
    /\ pc = [p \in Procs |-> "idle"]
    /\ cmd = [p \in Procs |-> Idle]
    /\ unit = [p \in Procs |-> None]
    /\ message = [p \in Procs |-> Nothing]
    /\ calls = [p \in Procs |-> <<>>]
    /\ result = [p \in Procs |-> Pending]
    /\ outcome = [p \in Procs |-> Pending]
    /\ printed = [p \in Procs |-> <<>>]
    /\ leader \in Units \cup {None}
    /\ app_config = <<>>

Next ==
    \/ \E options \in OptionsPool, enabled_plugins \in EnabledPool :
           ConfigureValidation(Cli, options, enabled_plugins)
    \/ ConfigureGetLeader(Cli)
    \/ ConfigureSetConfig(Cli)
    \/ \E smoke \in BOOLEAN, regex \in RegexPool, serial \in BOOLEAN :
           run_validate_action(Cli, smoke, regex, "", serial, "")
    \/ run_get_lists_action(Cli)
    \/ \E action_name \in ActionNames, print_stdout \in BOOLEAN :
           RunAction(Cli, action_name, Nothing, print_stdout)
    \/ RunActionGetLeader(Cli)
    \/ \E action_result \in ResultPool : RunActionInvoke(Cli, action_result)
    \/ Exit(Cli)
    \/ \E u \in Units \cup {None} : LeaderChange(u)

Spec == Init /\ [][Next]_vars

----------------------------------------------------------------------------
(* Specification SpecRace: two command line processes at once *)

RaceOptions == { <<ScheduleKey \o <<"=">> \o Sched30>>, <<ScheduleKey \o <<"=">> >> }
RaceResults ==
    { [return_code |-> Some(0), stdout |-> <<"a", "\n">>],
      [return_code |-> Some(2), stdout |-> <<>>] }

NextRace ==
    \/ \E p \in Procs, options \in RaceOptions :
           ConfigureValidation(p, options, {"observability"})
    \/ \E p \in Procs : ConfigureGetLeader(p)
    \/ \E p \in Procs : ConfigureSetConfig(p)
    \/ \E p \in Procs : run_validate_action(p, TRUE, "", "", FALSE, "")
    \/ \E p \in Procs : run_get_lists_action(p)
    \/ \E p \in Procs : RunActionGetLeader(p)
    \/ \E p \in Procs, action_result \in RaceResults : RunActionInvoke(p, action_result)
    \/ \E p \in Procs : Exit(p)
    \/ \E u \in Units \cup {None} : LeaderChange(u)

SpecRace == Init /\ [][NextRace]_vars

----------------------------------------------------------------------------
(* Claims about validated_schedule, checked under SpecSched *)

SchedDone == sched_out # Pending

IsBlank(s) == \A i \in 1..Len(s) : s[i] \in Whitespace

\* years searched for a schedule's firing instants when no search limit applies
FiringYears == 8

\* the first instant after cur at which the schedule fires, NoTime when it never does
FiringAfter(cols, cur) ==
    LET a == CalcWithin([cols EXCEPT ![5] = FieldRange(5)], cur, FiringYears)
        b == CalcWithin([cols EXCEPT ![3] = FieldRange(3)], cur, FiringYears)
    IN  IF IsStar(cols, 3) \/ IsStar(cols, 5) THEN CalcWithin(cols, cur, FiringYears)
        ELSE IF a = NoTime THEN b
        ELSE IF b = NoTime THEN a
        ELSE IF a <= b THEN a ELSE b

\* a schedule of five columns that croniter parses
ParsesAsFive(s) == Len(Split(s)) = 5 /\ Croniter(s).kind = "return"

\* C5: every parsed five-column schedule is rejected as too frequent exactly
\* when its first two firing instants after the reference instant are at most
\* 900 seconds apart, and is returned unchanged when they are further apart.
C5_PeriodDecides ==
    (SchedDone /\ ParsesAsFive(sched_in)) =>
        LET cols == Croniter(sched_in).value
            t1 == FiringAfter(cols, Base)
            t2 == FiringAfter(cols, t1)
        IN  (t1 # NoTime /\ t2 # NoTime) =>
                /\ (t2 - t1 <= 900) <=> (sched_out = Raise("ClickException", MsgTooFast))
                /\ (t2 - t1 > 900) => (sched_out = Return(sched_in))

\* C5, where the code agrees with it: when both firing instants lie within
\* croniter's search limit, the period test decides; otherwise the
\* CroniterBadDateError of get_next leaves validated_schedule.
C5_WithinSearchLimit ==
    (SchedDone /\ ParsesAsFive(sched_in)) =>
        LET cols == Croniter(sched_in).value
            t1 == GetNext(cols, Base)
            t2 == IF t1 = NoTime THEN NoTime ELSE GetNext(cols, t1)
        IN  IF t1 = NoTime \/ t2 = NoTime
            THEN sched_out = Raise("CroniterBadDateError", MsgBadDate)
            ELSE /\ (t2 - t1 <= 900) <=> (sched_out = Raise("ClickException", MsgTooFast))
                 /\ (t2 - t1 > 900) <=> (sched_out = Return(sched_in))
                 /\ t1 = FiringAfter(cols, Base)
                 /\ t2 = FiringAfter(cols, t1)

\* C6 as stated: every empty or whitespace-only schedule is accepted and
\* normalised to the empty string.
C6_BlankAccepted ==
    (SchedDone /\ IsBlank(sched_in)) => sched_out = Return(<<>>)

\* C6 amended: the empty schedule is accepted and returned as the empty
\* string; a non-empty schedule of whitespace only is rejected with the
\* "Exactly 5 columns" message.
C6_EmptyAcceptedBlankRejected ==
    SchedDone =>
        /\ (sched_in = <<>>) => (sched_out = Return(<<>>))
        /\ (sched_in # <<>> /\ IsBlank(sched_in)) =>
               (sched_out = Raise("ClickException", MsgColumns))

C6_Witness == SchedDone /\ sched_in = <<>> /\ sched_out = Return(<<>>)

\* C7: a schedule of exactly six whitespace-separated tokens is always
\* rejected with the "does not support seconds" message, whatever the tokens.
C7_SixColumnsRejected ==
    (SchedDone /\ Len(Split(sched_in)) = 6) =>
        sched_out = Raise("ClickException", MsgSeconds)

\* six tokens that croniter would have parsed, and six it would have refused
C7_Witness ==
    /\ SchedDone
    /\ Len(Split(sched_in)) = 6
    /\ Croniter(sched_in).kind = "return"
    /\ sched_out = Raise("ClickException", MsgSeconds)

----------------------------------------------------------------------------
(* Claims about configure_validation and _run_action *)

IsConfigure(p) == cmd[p].name = "configure"
IsRunAction(p) == cmd[p].name = "_run_action"

\* the calls of process p to the collaborator operation op
CallsOf(p, op) == {k \in 1..Len(calls[p]) : calls[p][k].op = op}

NotKeyValue(arg) == \A i \in 1..Len(arg) : arg[i] # "="
EqualsAt(arg) ==
    CHOOSE k \in 1..Len(arg) : arg[k] = "=" /\ \A j \in 1..(k - 1) : arg[j] # "="
KeyOf(arg) == SubSeq(arg, 1, EqualsAt(arg) - 1)
ValueOf(arg) == SubSeq(arg, EqualsAt(arg) + 1, Len(arg))

\* some argument is not key=value, repeats a key, has a key other than
\* schedule, or gives a schedule that validated_schedule refuses
BadOptions(options) ==
    \E i \in 1..Len(options) :
        \/ NotKeyValue(options[i])
        \/ /\ ~NotKeyValue(options[i])
           /\ \/ KeyOf(options[i]) # ScheduleKey
              \/ \E j \in 1..Len(options) :
                     j # i /\ ~NotKeyValue(options[j]) /\ KeyOf(options[j]) = KeyOf(options[i])
              \/ validated_schedule(ValueOf(options[i])).kind = "raise"

\* C1: configure with a bad argument list ends with an error before any call
\* to get_leader_unit or set_application_config, wherever the bad argument is.
C1_ValidationPrecedesDispatch ==
    \A p \in Procs :
        (IsConfigure(p) /\ BadOptions(cmd[p].options)) =>
            /\ pc[p] = "done"
            /\ outcome[p].kind = "raise"
            /\ calls[p] = <<>>

\* a valid schedule argument followed by an argument that is not key=value
C1_Witness ==
    /\ IsConfigure(Cli)
    /\ Len(cmd[Cli].options) = 2
    /\ ~BadOptions(<<cmd[Cli].options[1]>>)
    /\ NotKeyValue(cmd[Cli].options[2])
    /\ "observability" \in cmd[Cli].enabled_plugins
    /\ outcome[Cli].kind = "raise"
    /\ calls[Cli] = <<>>

\* C2: when get_leader_unit returns no unit the operation ends there with
\* "Unable to get tempest leader" and calls the collaborator no more.
C2_NoLeaderAborts ==
    \A p \in Procs :
        \A k \in CallsOf(p, "get_leader_unit") :
            calls[p][k].ret = None =>
                /\ k = Len(calls[p])
                /\ pc[p] = "done"
                /\ outcome[p] = Raise("ClickException", <<"Unable to get ", "tempest", " leader">>)
                /\ CallsOf(p, "run_action") = {}
                /\ CallsOf(p, "set_application_config") = {}

C2_Witness ==
    /\ IsRunAction(Cli)
    /\ pc[Cli] = "done"
    /\ Len(calls[Cli]) = 1
    /\ calls[Cli][1].ret = None
    /\ outcome[Cli].kind = "raise"

HasResult(p) == IsRunAction(p) /\ CallsOf(p, "run_action") # {}

C4_ConfigureSucceeds ==
    \A p \in Procs :
        (IsConfigure(p) /\ pc[p] = "done") =>
            /\ ( /\ "observability" \in cmd[p].enabled_plugins
                 /\ Len(cmd[p].options) = 1
                 /\ ~BadOptions(cmd[p].options)
                 /\ calls[p] # <<>>
                 /\ calls[p][1].ret # None ) =>
                   /\ outcome[p].kind = "return"
                   /\ Cardinality(CallsOf(p, "set_application_config")) = 1
                   /\ \A k \in CallsOf(p, "set_application_config") :
                          calls[p][k].config.schedule = ValueOf(cmd[p].options[1])
            /\ outcome[p].kind = "raise" => CallsOf(p, "set_application_config") = {}

\* C8: a dispatch calls get_leader_unit once, first, and then at most once
\* the action (or the config push), only after a unit came back; neither a
\* missing leader nor a failing return code makes it call again.
C8_OneLookupThenOneCall ==
    \A p \in Procs :
        /\ Len(calls[p]) <= 2
        /\ calls[p] # <<>> => calls[p][1].op = "get_leader_unit"
        /\ Len(calls[p]) = 2 =>
               /\ calls[p][1].ret # None
               /\ calls[p][2].op =
                      (IF IsRunAction(p) THEN "run_action" ELSE "set_application_config")
        /\ pc[p] \in {"run_get_leader", "configure_get_leader"} => calls[p] = <<>>
        /\ pc[p] \in {"run_invoke", "configure_set_config"} => Len(calls[p]) = 1
        /\ (pc[p] = "done" /\ IsRunAction(p)) =>
               /\ calls[p] # <<>>
               /\ Len(calls[p]) = (IF calls[p][1].ret = None THEN 1 ELSE 2)
        /\ (pc[p] = "done" /\ IsConfigure(p) /\ cmd[p].schedule # Nothing) =>
               /\ calls[p] # <<>>
               /\ Len(calls[p]) = (IF calls[p][1].ret = None THEN 1 ELSE 2)

\* an action that failed with return code 2 or more, after one lookup and one run
C8_Witness ==
    /\ HasResult(Cli)
    /\ pc[Cli] = "done"
    /\ result[Cli].return_code # Nothing
    /\ result[Cli].return_code[1] >= 2
    /\ Len(calls[Cli]) = 2

\* C9: every action is run on the unit that get_leader_unit returned within
\* the same dispatch, whatever the leader is by then and whatever unit another
\* dispatch holds.
C9_OwnLeader ==
    \A p \in Procs :
        \A k \in CallsOf(p, "run_action") :
            /\ k = 2
            /\ calls[p][1].op = "get_leader_unit"
            /\ calls[p][k].unit = calls[p][1].ret

\* two dispatches at once, each having run its action on another unit
C9_Witness ==
    \E p \in Procs, q \in Procs :
        /\ p # q
        /\ CallsOf(p, "run_action") = {2}
        /\ CallsOf(q, "run_action") = {2}
        /\ calls[p][2].unit # calls[q][2].unit

Succeeded(action_result) ==
    action_result.return_code = Nothing \/ action_result.return_code[1] <= 1

AllWhitespace(s, from, to) == \A k \in from..to : s[k] \in Whitespace

Trimmed(t) == t = <<>> \/ (t[1] \notin Whitespace /\ t[Len(t)] \notin Whitespace)

\* t is s without its leading and trailing whitespace
IsStripOf(t, s) ==
    /\ Trimmed(t)
    /\ \E a \in 0..Len(s) :
           /\ AllWhitespace(s, 1, a)
           /\ AllWhitespace(s, a + Len(t) + 1, Len(s))
           /\ a + Len(t) <= Len(s)
           /\ t = SubSeq(s, a + 1, a + Len(t))

\* t is s without its trailing whitespace, and nothing else changed
IsTrailingStripOf(t, s) ==
    /\ Len(t) <= Len(s)
    /\ t = SubSeq(s, 1, Len(t))
    /\ AllWhitespace(s, Len(t) + 1, Len(s))
    /\ (t = <<>> \/ t[Len(t)] \notin Whitespace)

\* C10 as stated: the text printed is stdout with only its trailing
\* whitespace trimmed; nothing is printed without print_stdout or on failure.
C10_TrailingStripped ==
    \A p \in Procs :
        (IsRunAction(p) /\ pc[p] = "done") =>
            IF HasResult(p) /\ cmd[p].print_stdout /\ Succeeded(result[p])
            THEN Len(printed[p]) = 1 /\ IsTrailingStripOf(printed[p][1], result[p].stdout)
            ELSE printed[p] = <<>>

\* C10 amended: the text printed is stdout with its leading and its trailing
\* whitespace trimmed; nothing is printed without print_stdout or on failure.
C10_StdoutStripped ==
    \A p \in Procs :
        (IsRunAction(p) /\ pc[p] = "done") =>
            IF HasResult(p) /\ cmd[p].print_stdout /\ Succeeded(result[p])
            THEN Len(printed[p]) = 1 /\ IsStripOf(printed[p][1], result[p].stdout)
            ELSE printed[p] = <<>>

\* stdout with whitespace before its text, printed
C10_Witness ==
    /\ HasResult(Cli)
    /\ cmd[Cli].print_stdout
    /\ Succeeded(result[Cli])
    /\ result[Cli].stdout # <<>>
    /\ result[Cli].stdout[1] \in Whitespace
    /\ Len(printed[Cli]) = 1
    /\ printed[Cli][1] # <<>>

====
